---- MODULE Spec2Model ----
(***************************************************************************)
(* A model of the i8086 emulator core of cpu.go: the CPU struct, the 8-bit *)
(* sub-register accessors, calcLen, DecodeInatruction, LoadProgram and Run. *)
(*                                                                         *)
(* The CPU struct is the record cpu.  Every Go function that takes a *CPU  *)
(* is an operator from a CPU record (and its arguments) to the CPU record  *)
(* it leaves behind, and one action calls it.  Unsigned Go integers keep   *)
(* their width: uint8 arithmetic is taken modulo 2^8, uint16 modulo 2^16.  *)
(*                                                                         *)
(* The 1 MiB Memory array is followed at the addresses of Addrs only: the  *)
(* value the code leaves in a cell depends on that cell alone (LoadProgram *)
(* copies b[i] to Memory[i]; nothing else writes), so the cells of Addrs   *)
(* evolve exactly as they do in the full array.                            *)
(***************************************************************************)
EXTENDS Integers, Sequences, FiniteSets, TLC

VARIABLES
    cpu,    \* the CPU struct (cpu.go 10-33)
    out,    \* what the last DecodeInatruction printed (cpu.go 276, 279)
    call,   \* the last call on the CPU: its name, its argument, how it ended
    ctl     \* the caller's thread: "idle", "running" (inside Run), "panicked"

vars == <<cpu, out, call, ctl>>

----------------------------------------------------------------------------
(* Bounds of the model *)

\* DecodeInatruction is called while PC < MaxPC (or from the top of the
\* 16-bit range, where PC wraps).
MaxPC == 4

\* The large images are MemSize .. MemSize + MaxOver bytes long: the one that
\* just fits and those that do not.
MaxOver == 1

----------------------------------------------------------------------------
(* Program constants *)

\* Memory [1048576]byte
MemSize == 1048576

\* PC and the registers are uint16
Word == 65536

\* Memory cells and the 8-bit accessors are uint8 / byte
Byte == 256

\* The 6-bit opcode class of the one entry of the opcode table
MOV == 34

\* The last even value of a uint16: PC after 32767 decodes from 0
TopPC == Word - 2

\* The addresses of Memory the model follows
Addrs == (0 .. MaxPC) \cup {TopPC, TopPC + 1, MemSize - 1}

\* Bytes an image is made of: 0x88 (MOV d=0 w=0), 0x8B (MOV d=1 w=1, or
\* mod=10 reg=001 rm=011), 0xC3 (mod=11 reg=000 rm=011, or opcode 110000),
\* 0x06 (mod=00 reg=000 rm=110, or opcode 000001)
ProgBytes == {136, 139, 195, 6}

\* The byte an oversized image is filled with after its head
FillBytes == {144}

\* Bytes the 8-bit setters are called with: 0x00, 0xA5, 0xFF
ByteVals == {0, 165, 255}

----------------------------------------------------------------------------
(* Go's unsigned integer operators *)

RECURSIVE And(_, _)
\* a & b
And(a, b) ==
    IF a = 0 \/ b = 0 THEN 0
    ELSE (a % 2) * (b % 2) + 2 * And(a \div 2, b \div 2)

RECURSIVE Or(_, _)
\* a | b
Or(a, b) ==
    IF a = 0 THEN b
    ELSE IF b = 0 THEN a
    ELSE (IF a % 2 = 1 \/ b % 2 = 1 THEN 1 ELSE 0) + 2 * Or(a \div 2, b \div 2)

\* a >> n
Shr(a, n) == a \div (2 ^ n)

\* a << n on a uint16
Shl16(a, n) == (a * (2 ^ n)) % Word

\* uint8(a)
uint8(a) == a % Byte

\* a++ on a uint16
Inc16(a) == (a + 1) % Word

----------------------------------------------------------------------------
(* The CPU *)

\* NewCPU: &CPU{}, every field zero
NewCPU ==
    [PC |-> 0, SP |-> 0, AX |-> 0, BX |-> 0, CX |-> 0, DX |-> 0,
     SI |-> 0, DI |-> 0, BP |-> 0, CS |-> 0, DS |-> 0, ES |-> 0,
     SS |-> 0, IP |-> 0, FL |-> 0, Flag |-> 0,
     programSize |-> 0,
     Memory |-> [a \in Addrs |-> 0]]

getAL(c) == uint8(And(c.AX, 255))

\* A getter that forgets the shift: uint8(c.AX)
getAH_noShift(c) == uint8(c.AX)

getAH(c) == uint8(Shr(c.AX, 8))

getBL(c) == uint8(And(c.BX, 255))

getBH(c) == uint8(Shr(c.BX, 8))

getCL(c) == uint8(And(c.CX, 255))

getCH(c) == uint8(Shr(c.CX, 8))

getDL(c) == uint8(And(c.DX, 255))

getDH(c) == uint8(Shr(c.DX, 8))

setAL(c, v) == [c EXCEPT !.AX = Or(And(c.AX, 65280), v)]

\* A setter that keeps nothing of the register: c.AX = uint16(v) << 8
setAH_clobber(c, v) == [c EXCEPT !.AX = Shl16(v, 8)]

setAH(c, v) == [c EXCEPT !.AX = Or(And(c.AX, 255), Shl16(v, 8))]

setBL(c, v) == [c EXCEPT !.BX = Or(And(c.BX, 65280), v)]

setBH(c, v) == [c EXCEPT !.BX = Or(And(c.BX, 255), Shl16(v, 8))]

setCL(c, v) == [c EXCEPT !.CX = Or(And(c.CX, 65280), v)]

setCH(c, v) == [c EXCEPT !.CX = Or(And(c.CX, 255), Shl16(v, 8))]

setDL(c, v) == [c EXCEPT !.DX = Or(And(c.DX, 65280), v)]

setDH(c, v) == [c EXCEPT !.DX = Or(And(c.DX, 255), Shl16(v, 8))]

----------------------------------------------------------------------------
(* The opcode table, calcLen and DecodeInatruction *)

mnemonics == (MOV :> "MOV")

\* mnemonics[opcode], "" for a missing key
Mnemonic(opcode) ==
    IF opcode \in DOMAIN mnemonics THEN mnemonics[opcode] ELSE ""

calcLen(opcode, d, w, mod, rm) ==
    IF opcode = MOV
    THEN [length |-> IF w = 1 THEN 2 ELSE 1, err |-> "nil"]
    ELSE [length |-> 0, err |-> "invalid opcode"]

NoOutput == [mnemonic |-> "-", opcode |-> 0, d |-> 0, w |-> 0,
             mod |-> 0, reg |-> 0, rm |-> 0]

\* A decoder that steps IP, not PC, after the mode byte
Decode_stepsIP(c) ==
    LET memory1 == c.Memory[c.PC]
        pc1     == Inc16(c.PC)
        memory2 == c.Memory[pc1]
    IN [cpu |-> [c EXCEPT !.PC = pc1, !.IP = Inc16(c.IP)],
        out |-> [mnemonic |-> Mnemonic(Shr(And(memory1, 252), 2)),
                 opcode   |-> Shr(And(memory1, 252), 2),
                 d        |-> Shr(And(memory1, 2), 1),
                 w        |-> And(memory1, 1),
                 mod      |-> Shr(And(memory2, 192), 6),
                 reg      |-> Shr(And(memory2, 56), 3),
                 rm       |-> And(memory2, 7)],
        err |-> "nil"]

\* A decoder whose register mask is 0x30, not 0x38
Decode_regMask(c) ==
    LET memory1 == c.Memory[c.PC]
        pc1     == Inc16(c.PC)
        memory2 == c.Memory[pc1]
        pc2     == Inc16(pc1)
    IN [cpu |-> [c EXCEPT !.PC = pc2],
        out |-> [mnemonic |-> Mnemonic(Shr(And(memory1, 252), 2)),
                 opcode   |-> Shr(And(memory1, 252), 2),
                 d        |-> Shr(And(memory1, 2), 1),
                 w        |-> And(memory1, 1),
                 mod      |-> Shr(And(memory2, 192), 6),
                 reg      |-> Shr(And(memory2, 48), 3),
                 rm       |-> And(memory2, 7)],
        err |-> "nil"]

DecodeInatruction(c) ==
    LET memory1 == c.Memory[c.PC]               \* memory := c.Memory[c.PC]
        pc1     == Inc16(c.PC)                  \* c.PC++
        opcode  == Shr(And(memory1, 252), 2)    \* (memory & 0xFC) >> 2
        d       == Shr(And(memory1, 2), 1)      \* (memory & 0x2) >> 1
        w       == And(memory1, 1)              \* (memory & 0x1)
        memory2 == c.Memory[pc1]                \* memory = c.Memory[c.PC]
        pc2     == Inc16(pc1)                   \* c.PC++
        mod     == Shr(And(memory2, 192), 6)    \* (memory & 0xC0) >> 6
        reg     == Shr(And(memory2, 56), 3)     \* (memory & 0x38) >> 3
        rm      == And(memory2, 7)              \* (memory & 0x07)
    IN [cpu |-> [c EXCEPT !.PC = pc2],
        out |-> [mnemonic |-> Mnemonic(opcode), opcode |-> opcode,
                 d |-> d, w |-> w, mod |-> mod, reg |-> reg, rm |-> rm],
        err |-> "nil"]                          \* return Instruction{}, nil

----------------------------------------------------------------------------
(* LoadProgram *)

\* The bytes b read from the file: b.len bytes, the first ones b.head, the
\* others b.fill
ImageByte(b, i) == IF i < Len(b.head) THEN b.head[i + 1] ELSE b.fill

\* The programs loaded: the empty one, each byte of ProgBytes alone, two-byte
\* instructions (88 C3 is MOV mod=11; 88 06 is MOV mod=00 rm=110; C3 8B and
\* 06 88 have no entry in the opcode table) and one of four bytes
Programs ==
    {<<>>} \cup {<<x>> : x \in ProgBytes}
    \cup {<<136, 195>>, <<139, 195>>, <<136, 6>>, <<195, 139>>, <<6, 136>>}
    \cup {<<136, 195, 139, 6>>}

\* The images that fit
SmallImages == {[len |-> Len(h), head |-> h, fill |-> 0] : h \in Programs}

\* The images of MemSize bytes and more
BigImages ==
    {[len |-> MemSize + k, head |-> h, fill |-> f] :
        k \in 0 .. MaxOver, h \in {<<>>, <<136, 195>>}, f \in FillBytes}

Images == SmallImages \cup BigImages

\* The loop of lines 296-299 stores b[i] in Memory[i] for i = 0, 1, ... and
\* panics (index out of range) at i = MemSize, before line 301 is reached.
LoadProgram(c, b) ==
    LET stored == IF b.len > MemSize THEN MemSize ELSE b.len
    IN [cpu |-> [c EXCEPT
                   !.Memory = [a \in Addrs |->
                                  IF a < stored THEN ImageByte(b, a) ELSE @[a]],
                   !.programSize = IF b.len > MemSize THEN @ ELSE b.len],
        err |-> IF b.len > MemSize THEN "panic" ELSE "nil"]

----------------------------------------------------------------------------
(* Initial states *)

Called(op, arg, err) == [op |-> op, arg |-> arg, err |-> err]

\* A CPU as NewCPU returns it; one whose four data registers were then
\* written through the setters; one after 32767 calls of DecodeInatruction
\* (PC = 0xFFFE, where the next call wraps PC).
StartCPUs ==
    {NewCPU,
     setDH(setDL(setCH(setCL(setBH(setBL(setAH(setAL(NewCPU, 255), 165),
        1), 2), 4), 8), 16), 32),
     [NewCPU EXCEPT !.PC = TopPC]}

Init ==
    /\ cpu \in StartCPUs
    /\ out = NoOutput
    /\ call = Called("NewCPU", 0, "nil")
    /\ ctl = "idle"

\* A CPU that has loaded the program 88 C3 and decoded it: PC, programSize
\* and Memory are not zero when the setters are called.
RegStartCPUs ==
    LET loaded == LoadProgram(NewCPU, [len |-> 2, head |-> <<136, 195>>,
                                       fill |-> 0]).cpu
    IN {DecodeInatruction(loaded).cpu}

InitReg ==
    /\ cpu \in RegStartCPUs
    /\ out = NoOutput
    /\ call = Called("NewCPU", 0, "nil")
    /\ ctl = "idle"

----------------------------------------------------------------------------
(* Actions: one per function of cpu.go *)

Set(name, v, c) ==
    /\ ctl = "idle"
    /\ cpu' = c
    /\ call' = Called(name, v, "nil")
    /\ UNCHANGED <<out, ctl>>

CallSetAL == \E v \in ByteVals : Set("setAL", v, setAL(cpu, v))

CallSetAH == \E v \in ByteVals : Set("setAH", v, setAH(cpu, v))

CallSetBL == \E v \in ByteVals : Set("setBL", v, setBL(cpu, v))

CallSetBH == \E v \in ByteVals : Set("setBH", v, setBH(cpu, v))

CallSetCL == \E v \in ByteVals : Set("setCL", v, setCL(cpu, v))

CallSetCH == \E v \in ByteVals : Set("setCH", v, setCH(cpu, v))

CallSetDL == \E v \in ByteVals : Set("setDL", v, setDL(cpu, v))

CallSetDH == \E v \in ByteVals : Set("setDH", v, setDH(cpu, v))

CallDecodeInatruction ==
    /\ ctl = "idle"
    /\ cpu.PC < MaxPC \/ cpu.PC >= TopPC
    /\ LET r == DecodeInatruction(cpu)
       IN /\ cpu' = r.cpu
          /\ out' = r.out
          /\ call' = Called("DecodeInatruction", cpu.PC, r.err)
    /\ UNCHANGED ctl

CallLoadProgram ==
    /\ ctl = "idle"
    /\ \E b \in Images :
          LET r == LoadProgram(cpu, b)
          IN /\ cpu' = r.cpu
             /\ call' = Called("LoadProgram", b.len, r.err)
             /\ ctl' = IF r.err = "panic" THEN "panicked" ELSE "idle"
    /\ UNCHANGED out

\* os.Open or io.ReadAll fails: the error is returned before any store
CallLoadProgramIOError ==
    /\ ctl = "idle"
    /\ call' = Called("LoadProgram", 0, "io error")
    /\ UNCHANGED <<cpu, out, ctl>>

\* Run is entered
CallRun ==
    /\ ctl = "idle"
    /\ ctl' = "running"
    /\ call' = Called("Run", 0, "none")
    /\ UNCHANGED <<cpu, out>>

\* One turn of Run's loop: for { }
RunLoop ==
    /\ ctl = "running"
    /\ UNCHANGED vars

Next ==
    \/ CallLoadProgram
    \/ CallLoadProgramIOError
    \/ CallDecodeInatruction
    \/ CallRun
    \/ RunLoop

Spec == Init /\ [][Next]_vars

\* The thread inside Run keeps running
SpecFair == Init /\ [][Next]_vars /\ WF_vars(RunLoop)

NextReg ==
    \/ CallSetAL
    \/ CallSetAH
    \/ CallSetBL
    \/ CallSetBH
    \/ CallSetCL
    \/ CallSetCH
    \/ CallSetDL
    \/ CallSetDH

SpecReg == InitReg /\ [][NextReg]_vars

----------------------------------------------------------------------------
(* The claims *)

SetterNames ==
    {"setAL", "setAH", "setBL", "setBH", "setCL", "setCH", "setDL", "setDH"}

\* The 16-bit field a setter owns
Owner(name) ==
    CASE name \in {"setAL", "setAH"} -> "AX"
      [] name \in {"setBL", "setBH"} -> "BX"
      [] name \in {"setCL", "setCH"} -> "CX"
      [] name \in {"setDL", "setDH"} -> "DX"

LowSetters == {"setAL", "setBL", "setCL", "setDL"}

\* Every field of the CPU but those of keep is the same before and after
SameBut(keep) == \A g \in (DOMAIN cpu) \ keep : cpu'[g] = cpu[g]

DecodeStep == call'.op = "DecodeInatruction"

\* C1: in every state the setters reach, each low-byte getter returns
\* v & 0xFF and each high-byte getter (v >> 8) & 0xFF of its register's value
\* v; the register is (high byte << 8) | low byte; the byte a setter has just
\* written is the byte its getter returns; and writing the low byte and then
\* the high byte of any v = h * 256 + l leaves exactly v in the register.
C1_SubRegisterAliasing ==
    /\ getAL(cpu) = cpu.AX % 256 /\ getAH(cpu) = (cpu.AX \div 256) % 256
    /\ getBL(cpu) = cpu.BX % 256 /\ getBH(cpu) = (cpu.BX \div 256) % 256
    /\ getCL(cpu) = cpu.CX % 256 /\ getCH(cpu) = (cpu.CX \div 256) % 256
    /\ getDL(cpu) = cpu.DX % 256 /\ getDH(cpu) = (cpu.DX \div 256) % 256
    /\ cpu.AX = getAH(cpu) * 256 + getAL(cpu)
    /\ cpu.BX = getBH(cpu) * 256 + getBL(cpu)
    /\ cpu.CX = getCH(cpu) * 256 + getCL(cpu)
    /\ cpu.DX = getDH(cpu) * 256 + getDL(cpu)
    /\ call.op = "setAL" => getAL(cpu) = call.arg
    /\ call.op = "setAH" => getAH(cpu) = call.arg
    /\ call.op = "setBL" => getBL(cpu) = call.arg
    /\ call.op = "setBH" => getBH(cpu) = call.arg
    /\ call.op = "setCL" => getCL(cpu) = call.arg
    /\ call.op = "setCH" => getCH(cpu) = call.arg
    /\ call.op = "setDL" => getDL(cpu) = call.arg
    /\ call.op = "setDH" => getDH(cpu) = call.arg
    /\ \A h \in ByteVals, l \in ByteVals :
          /\ setAH(setAL(cpu, l), h).AX = h * 256 + l
          /\ setBH(setBL(cpu, l), h).BX = h * 256 + l
          /\ setCH(setCL(cpu, l), h).CX = h * 256 + l
          /\ setDH(setDL(cpu, l), h).DX = h * 256 + l

\* BX was composed by the setters from two different non-zero bytes, the
\* high one written last, while DX holds a low byte only
C1_Witness ==
    /\ call.op = "setBH"
    /\ cpu.BX = 165 * 256 + 255
    /\ getBH(cpu) = 165 /\ getBL(cpu) = 255
    /\ cpu.DX = 165

\* C2: a step of an 8-bit setter stores its argument in the byte it
\* addresses and leaves the sibling byte of the owning register, every other
\* field of the CPU (PC, FL, Flag, programSize and Memory among them) and the
\* output as they were.
C2_SetterFrame ==
    [][call'.op \in SetterNames =>
          /\ SameBut({Owner(call'.op)})
          /\ out' = out
          /\ IF call'.op \in LowSetters
             THEN /\ cpu'[Owner(call'.op)] \div 256 = cpu[Owner(call'.op)] \div 256
                  /\ cpu'[Owner(call'.op)] % 256 = call'.arg
             ELSE /\ cpu'[Owner(call'.op)] % 256 = cpu[Owner(call'.op)] % 256
                  /\ cpu'[Owner(call'.op)] \div 256 = call'.arg]_vars

\* setAH has written over a non-zero high byte beside a non-zero low byte, on
\* a CPU with a loaded program and an advanced PC
C2_Witness ==
    /\ call.op = "setAH" /\ call.arg = 165
    /\ cpu.AX = 165 * 256 + 255
    /\ cpu.CX = 255 * 256
    /\ cpu.PC = 2 /\ cpu.programSize = 2 /\ cpu.Memory[0] = 136

\* C3: a step of DecodeInatruction changes no field of the CPU but PC:
\* Memory, FL, Flag and every other register are as before.
C3_DecodeFrame == [][DecodeStep => SameBut({"PC"})]_vars

\* A MOV has been decoded on a CPU whose data registers and memory are not
\* zero
C3_Witness ==
    /\ call.op = "DecodeInatruction"
    /\ out.mnemonic = "MOV"
    /\ cpu.AX = 165 * 256 + 255 /\ cpu.DX = 32 * 256 + 16
    /\ cpu.Memory[0] = 136 /\ cpu.Memory[1] = 195
    /\ cpu.PC = 2

\* C4: a decode whose mode byte has mod = 00 and rm = 110 consumes the two
\* displacement bytes too: PC advances by 4 and the length computed for the
\* instruction counts them.
C4_DirectAddress ==
    [][(DecodeStep /\ out'.opcode \in DOMAIN mnemonics
          /\ out'.mod = 0 /\ out'.rm = 6) =>
          /\ cpu'.PC = (cpu.PC + 4) % Word
          /\ calcLen(out'.opcode, out'.d, out'.w, out'.mod, out'.rm).length = 4]_vars

\* C5: a decode of a byte whose top 6 bits are no key of mnemonics ends with
\* an UnsupportedOpcode error.
C5_UnsupportedOpcode ==
    (call.op = "DecodeInatruction" /\ out.opcode \notin DOMAIN mnemonics)
        => call.err = "UnsupportedOpcode"

\* C6: LoadProgram of an image longer than the memory returns a load error
\* and leaves Memory and programSize as they were.
C6_LoadBounds ==
    [][(call'.op = "LoadProgram" /\ call'.arg > MemSize) =>
          /\ call'.err = "LoadError"
          /\ cpu'.Memory = cpu.Memory
          /\ cpu'.programSize = cpu.programSize]_vars

\* C7: once entered, Run eventually returns to its caller.
C7_RunTerminates == (ctl = "running") ~> (ctl # "running")

\* C8: for a MOV with mod = 11 the length calcLen computes is 2, whatever w
\* and d are, and is what the decode advanced PC by.
C8_RegToRegLength ==
    [][(DecodeStep /\ out'.opcode = MOV /\ out'.mod = 3) =>
          LET n == calcLen(out'.opcode, out'.d, out'.w, out'.mod, out'.rm).length
          IN /\ n = 2
             /\ cpu'.PC = (cpu.PC + n) % Word]_vars

\* C9: a decode reads b0 at PC and b1 at PC + 1, leaves PC two further, and
\* prints opcode = b0 >> 2, d = bit 1 of b0, w = bit 0 of b0, mod = b1 >> 6,
\* reg = bits 5..3 of b1 and rm = bits 2..0 of b1: fields that stay inside
\* their widths and recompose b0 and b1.
C9_BitFields ==
    [][DecodeStep =>
          LET b0 == cpu.Memory[cpu.PC]
              b1 == cpu.Memory[(cpu.PC + 1) % Word]
          IN /\ cpu'.PC = (cpu.PC + 2) % Word
             /\ out'.opcode = b0 \div 4
             /\ out'.d = (b0 \div 2) % 2
             /\ out'.w = b0 % 2
             /\ out'.mod = b1 \div 64
             /\ out'.reg = (b1 \div 8) % 8
             /\ out'.rm = b1 % 8
             /\ out'.opcode \in 0 .. 63 /\ out'.d \in 0 .. 1 /\ out'.w \in 0 .. 1
             /\ out'.mod \in 0 .. 3 /\ out'.reg \in 0 .. 7 /\ out'.rm \in 0 .. 7
             /\ out'.opcode * 4 + out'.d * 2 + out'.w = b0
             /\ out'.mod * 64 + out'.reg * 8 + out'.rm = b1]_vars

\* The bytes C3 8B have been decoded: every one of the six fields is not zero
C9_Witness ==
    /\ call.op = "DecodeInatruction"
    /\ out.opcode = 48 /\ out.d = 1 /\ out.w = 1
    /\ out.mod = 2 /\ out.reg = 1 /\ out.rm = 3

\* C10: a decode fetches inside the loaded program only: when the opcode byte
\* or the mode byte lies at or beyond programSize the decode ends with an
\* OutOfBounds error and does not advance PC.
C10_NoRunOffEnd ==
    [][(DecodeStep /\ ~(cpu.PC < cpu.programSize /\ cpu.PC + 1 < cpu.programSize)) =>
          /\ call'.err = "OutOfBounds"
          /\ cpu'.PC = cpu.PC]_vars

====
